---- MODULE Spec2Model ----
(***************************************************************************)
(* Model of adaptive/runner.py: BaseRunner.__init__, BlockingRunner._run,  *)
(* AsyncRunner.__init__/_run, replay_log, SequentialExecutor and the pool  *)
(* helpers _ensure_executor/_get_ncores.                                   *)
(*                                                                         *)
(* One runner is constructed per behaviour.  The constructor arguments are *)
(* drawn in Init; the learner (choose_points, add_point), the goal, the    *)
(* workers and the code that holds the asyncio task are the environment.   *)
(***************************************************************************)
EXTENDS Integers, Sequences, FiniteSets, TLC

\* ---- bounds -------------------------------------------------------------
MaxFut    == 3      \* futures submitted over one run
MaxRounds == 3      \* choose_points calls over one run
MaxCores  == 1      \* largest worker count of a pool
MaxNtasks == 2      \* largest explicit ntasks argument
MaxCancel == 2      \* external task.cancel() requests over one run
MaxExtra  == 1      \* points a learner may return beyond the number asked

None == -1          \* the Python value None of an optional argument


\* learner.function, when it returns: some function of the point
Function(x) == x + 6

Futs == 1..MaxFut

Modes     == {"blocking", "async"}
Executors == {"none", "sequential", "thread", "cluster", "other", "bad"}

VARIABLES
    \* constructor arguments
    mode,               \* BlockingRunner or AsyncRunner
    executorArg,        \* kind of the 'executor' argument ("none" = None)
    capacity,           \* worker count of the pool
    ntasksArg,          \* 'ntasks' argument (None when omitted)
    shutdownArg,        \* 'shutdown_executor' argument
    logArg,             \* 'log' argument
    isCoro,             \* inspect.iscoroutinefunction(learner.function)
    \* runner attributes and locals of _run
    pc,                 \* position of the constructor / of _run
    ntasks,             \* self.ntasks
    shutdown_executor,  \* self.shutdown_executor
    log,                \* self.log (<<>> also stands for None when ~logArg)
    xs,                 \* keys of the dict xs: futures in the map
    fx,                 \* xs[fut]: input each future was submitted with
    done,               \* the set 'done' returned by the last wait
    lenDone,            \* len(done)
    exc,                \* exception in flight / outcome of the run
    \* futures
    nfut,               \* number of futures created so far
    fstate,             \* state of each future
    fres,               \* result of each finished future
    viaPool,            \* futures submitted to self.executor
    \* history
    calls,              \* learner method invocations, in order
    addCount,           \* add_point calls per future
    cancelCalled,       \* futures fut.cancel() was called on
    shutdownCount,      \* self.executor.shutdown() calls
    goalTrue,           \* goal(learner) has returned True
    goalEvals,          \* goal(learner) evaluations
    rounds,             \* FILLING steps
    lastWake,           \* number of futures returned by the last wait
    allExact,           \* every choose_points(n) so far returned n points
    neverMore,          \* no choose_points(n) so far returned more than n
    cancelReqs,         \* task.cancel() requests delivered
    cancelAt,           \* pc at which the first cancellation was delivered
    outAtCancel,        \* xs at that moment
    failedFut,          \* future whose result() raised (0: none)
    taskCreated         \* ioloop.create_task(self._run()) happened

cfg  == <<mode, executorArg, capacity, ntasksArg, shutdownArg, logArg, isCoro>>
loop == <<pc, ntasks, shutdown_executor, log, xs, fx, done, lenDone, exc>>
futs == <<nfut, fstate, fres, viaPool>>
hist == <<calls, addCount, cancelCalled, shutdownCount, goalTrue, goalEvals,
          rounds, lastWake, allExact, neverMore, cancelReqs, cancelAt, outAtCancel,
          failedFut, taskCreated>>
vars == <<cfg, loop, futs, hist>>

\* ---- pool helpers -------------------------------------------------------

\* _ensure_executor: does the argument resolve to an executor?
EnsureExecutorOk(ex) == ex # "bad"

\* _get_ncores: is the executor's type one whose worker count is known?
GetNcoresOk(ex) == ex \in {"none", "sequential", "thread", "cluster"}

\* _get_ncores: 1 for SequentialExecutor, the worker count otherwise
GetNcores(ex, cap) == IF ex = "sequential" THEN 1 ELSE cap

\* 'ntasks or _get_ncores(...)': is the right operand evaluated?
NtasksFalsy(nt) == nt = None \/ nt = 0

\* self.ntasks = ntasks or _get_ncores(self.executor)
StoredNtasks(nt, ex, cap) == IF NtasksFalsy(nt) THEN GetNcores(ex, cap) ELSE nt

\* self.shutdown_executor = shutdown_executor or (executor is None)
StoredShutdown(flag, ex) == flag \/ (ex = "none")

\* worker counts a pool of each kind can have
Capacities(ex) ==
    CASE ex = "none"       -> 1..MaxCores
      [] ex = "sequential" -> {1}
      [] ex = "thread"     -> 1..MaxCores
      [] ex = "cluster"    -> 0..MaxCores
      [] OTHER             -> {1}

\* ---- futures ------------------------------------------------------------

FutStates == {"none", "pending", "running", "ok", "err", "cancelling", "cancelled"}

IsDone(s) == s \in {"ok", "err", "cancelled"}

\* the futures of a set that have resolved
Resolved(S) == {f \in S : IsDone(fstate[f])}

\* fut.cancel() of the three kinds of future the runners hold
CancelFut(s) ==
    IF IsDone(s) THEN s
    ELSE IF mode = "blocking"
         THEN (IF s = "pending" THEN "cancelled" ELSE s)
         ELSE IF isCoro THEN "cancelling" ELSE "cancelled"


\* a future right after self._submit(x): SequentialExecutor.submit runs the
\* function at once and returns a resolved concurrent future (a result, or
\* the captured exception), which the blocking runner holds itself; every
\* other future starts unresolved
SubmitOutcomes ==
    IF mode = "blocking" /\ executorArg = "sequential"
    THEN {"ok", "err"}
    ELSE {"pending"}

\* ---- the loop's decisions ----------------------------------------------

\* a list of placeholders that is one too long
InitialDoneOneMore(nt) == nt + 1

\* len(done) after 'done = [None] * self.ntasks'
InitialDone(nt) == nt

\* len(done): the argument of choose_points
Requested(nDone, nt, nOut) == nDone

\* a loop that never looks at the value of the goal
AfterGoalIgnored(g) == "fill"

\* 'while not self.goal(self.learner)': where the loop goes after the test
AfterGoal(g) == IF g THEN "drain" ELSE "fill"

\* a loop that tests the goal only at the end of a round
LoopEntryFillFirst == "fill"

\* the test of the while loop comes before the first FILLING step
LoopEntry == "goal"

\* a wait that hands over one resolved future only
WaitResultOne(S) == {CHOOSE f \in Resolved(S) : TRUE}

\* the futures handed to the for loop by wait(..., FIRST_COMPLETED)
WaitResult(S) == Resolved(S)

\* a log that keeps the method names only
RecordNameOnly(lg, entry) == IF logArg THEN Append(lg, <<entry[1]>>) ELSE lg

\* self.log.append(entry) when do_log
Record(lg, entry) == IF logArg THEN Append(lg, entry) ELSE lg

\* a cancellation that is caught and dropped
CancelSwallowed(old) == old

\* the exception that leaves an 'await' that a task.cancel() interrupts
CancelExc(old) == "Cancelled"

\* a runner that hands every point to the executor
SubmitsToPoolAlways == TRUE

\* self._submit hands the point to the executor, unless learner.function is
\* a coroutine function, which is run as a task of the event loop
SubmitsToPool == ~isCoro

\* a lookup xs[fut] that leaves the future in the map
PopKeeps(S, f) == S

\* x = xs.pop(fut): the map without the future
Pop(S, f) == S \ {f}

\* a teardown that cancels and does not wait
AllResolvedUnchecked(S) == TRUE

\* wait(remaining) has returned: every remaining future has resolved
AllResolved(S) == Resolved(S) = S

\* a teardown that goes back to the loop's wait for what it cancelled
AfterDrainBackToWait(empty) == IF empty THEN "done" ELSE "wait"

\* the finally block after cancelling: nothing was left, or wait(remaining)
AfterDrain(empty) == IF empty THEN "done" ELSE "drainwait"

\* a for loop that awaits each future instead of reading its result
AwaitPointsInForLoop == {"wait", "absorb", "drainwait"}

\* the places where _run waits: wait(futures, return_when=first_completed)
\* and wait(remaining)
AwaitPoints == {"wait", "drainwait"}

\* wait(futures, return_when=first_completed) over an empty list, in each
\* strategy: concurrent.futures.wait returns two empty sets at once and the
\* loop goes round; asyncio.wait raises ValueError
EmptyWait(m) ==
    IF m = "blocking" THEN [pc |-> "goal", exc |-> "none"]
                      ELSE [pc |-> "drain", exc |-> "ValueError"]

\* the k points a learner returns to one choose_points call: points it has
\* not proposed before, numbered in the order it proposes them
Points(k) == [i \in 1..k |-> nfut + i]

Min(a, b) == IF a < b THEN a ELSE b

\* ---- initial state ------------------------------------------------------

Init ==
    /\ mode \in Modes
    /\ executorArg \in Executors
    /\ capacity \in Capacities(executorArg)
    /\ ntasksArg \in {None} \cup (0..MaxNtasks)
    /\ executorArg \in {"thread", "other"} => ntasksArg = None
    /\ shutdownArg \in BOOLEAN
    /\ logArg \in BOOLEAN
    /\ isCoro \in BOOLEAN
    /\ pc = "new"
    /\ ntasks = 0
    /\ shutdown_executor = FALSE
    /\ log = <<>>
    /\ xs = {}
    /\ fx = [f \in Futs |-> 0]
    /\ done = {}
    /\ lenDone = 0
    /\ exc = "none"
    /\ nfut = 0
    /\ fstate = [f \in Futs |-> "none"]
    /\ fres = [f \in Futs |-> 0]
    /\ viaPool = {}
    /\ calls = <<>>
    /\ addCount = [f \in Futs |-> 0]
    /\ cancelCalled = {}
    /\ shutdownCount = 0
    /\ goalTrue = FALSE
    /\ goalEvals = 0
    /\ rounds = 0
    /\ lastWake = 0
    /\ allExact = TRUE
    /\ neverMore = TRUE
    /\ cancelReqs = 0
    /\ cancelAt = "never"
    /\ outAtCancel = {}
    /\ failedFut = 0
    /\ taskCreated = FALSE

\* ---- construction -------------------------------------------------------

\* the constructor fails: nothing else changes
Fail(e) ==
    /\ pc' = "done"
    /\ exc' = e
    /\ UNCHANGED <<ntasks, shutdown_executor, log, xs, fx, done, lenDone>>
    /\ UNCHANGED <<futs, hist>>

\* BaseRunner.__init__ raises: unusable executor, or unknown worker count
BaseInitFails ==
    \/ ~EnsureExecutorOk(executorArg)
    \/ NtasksFalsy(ntasksArg) /\ ~GetNcoresOk(executorArg)

\* BlockingRunner.__init__ up to the call of self._run()
ConstructBlocking ==
    /\ pc = "new" /\ mode = "blocking"
    /\ UNCHANGED cfg
    /\ IF isCoro THEN Fail("CoroutineInBlocking")
       ELSE IF BaseInitFails THEN Fail("TypeError")
       ELSE /\ ntasks' = StoredNtasks(ntasksArg, executorArg, capacity)
            /\ shutdown_executor' = StoredShutdown(shutdownArg, executorArg)
            /\ pc' = "start"
            /\ UNCHANGED <<log, xs, fx, done, lenDone, exc>>
            /\ UNCHANGED <<futs, hist>>

\* AsyncRunner.__init__ up to ioloop.create_task(self._run())
ConstructAsync ==
    /\ pc = "new" /\ mode = "async"
    /\ UNCHANGED cfg
    /\ IF BaseInitFails THEN Fail("TypeError")
       ELSE IF isCoro /\ executorArg # "none"
       THEN /\ pc' = "done"
            /\ exc' = "ExecutorUnused"
            /\ ntasks' = StoredNtasks(ntasksArg, executorArg, capacity)
            /\ shutdown_executor' = StoredShutdown(shutdownArg, executorArg)
            /\ UNCHANGED <<log, xs, fx, done, lenDone>>
            /\ UNCHANGED <<futs, hist>>
       ELSE /\ ntasks' = StoredNtasks(ntasksArg, executorArg, capacity)
            /\ shutdown_executor' = StoredShutdown(shutdownArg, executorArg)
            /\ shutdownCount' = IF isCoro THEN shutdownCount + 1 ELSE shutdownCount
            /\ taskCreated' = TRUE
            /\ pc' = "start"
            /\ UNCHANGED <<log, xs, fx, done, lenDone, exc>>
            /\ UNCHANGED futs
            /\ UNCHANGED <<calls, addCount, cancelCalled, goalTrue, goalEvals,
                           rounds, lastWake, allExact, neverMore, cancelReqs, cancelAt,
                           outAtCancel, failedFut>>

\* ---- _run: before the try block ----------------------------------------

\* done = [None] * self.ntasks; if len(done) == 0: raise RuntimeError
Begin ==
    /\ pc = "start"
    /\ UNCHANGED cfg
    /\ lenDone' = InitialDone(ntasks)
    /\ IF lenDone' = 0
       THEN /\ pc' = "done"
            /\ exc' = "NoWorkers"
       ELSE /\ pc' = LoopEntry
            /\ exc' = exc
    /\ UNCHANGED <<ntasks, shutdown_executor, log, xs, fx, done>>
    /\ UNCHANGED <<futs, hist>>


\* ---- _run: the loop -----------------------------------------------------

\* 'while not self.goal(self.learner)': the goal returns a truth value
GoalTest ==
    /\ pc = "goal"
    /\ UNCHANGED cfg
    /\ \E g \in BOOLEAN :
         /\ pc' = AfterGoal(g)
         /\ goalTrue' = (goalTrue \/ g)
    /\ goalEvals' = goalEvals + 1
    /\ UNCHANGED <<ntasks, shutdown_executor, log, xs, fx, done, lenDone, exc>>
    /\ UNCHANGED futs
    /\ UNCHANGED <<calls, addCount, cancelCalled, shutdownCount, rounds,
                   lastWake, allExact, neverMore, cancelReqs, cancelAt, outAtCancel,
                   failedFut, taskCreated>>

\* the goal raises: the exception leaves the try block
GoalRaises ==
    /\ pc = "goal"
    /\ UNCHANGED cfg
    /\ pc' = "drain"
    /\ exc' = "GoalError"
    /\ goalEvals' = goalEvals + 1
    /\ UNCHANGED <<ntasks, shutdown_executor, log, xs, fx, done, lenDone>>
    /\ UNCHANGED futs
    /\ UNCHANGED <<calls, addCount, cancelCalled, shutdownCount, goalTrue,
                   rounds, lastWake, allExact, neverMore, cancelReqs, cancelAt,
                   outAtCancel, failedFut, taskCreated>>

\* FILLING: log and call choose_points(len(done)), submit every point
Fill ==
    /\ pc = "fill" /\ rounds < MaxRounds
    /\ UNCHANGED cfg
    /\ LET n == Requested(lenDone, ntasks, Cardinality(xs)) IN
       /\ log' = Record(log, <<"choose_points", n>>)
       /\ calls' = Append(calls, <<"choose_points", n>>)
       /\ rounds' = rounds + 1
       /\ \E k \in 0..Min(n + MaxExtra, MaxFut - nfut) :
          \E out \in [1..k -> SubmitOutcomes] :
            LET pts == Points(k)
                new == (nfut + 1)..(nfut + k) IN
            /\ nfut' = nfut + k
            /\ xs' = xs \cup new
            /\ fx' = [f \in Futs |-> IF f \in new THEN pts[f - nfut] ELSE fx[f]]
            /\ fstate' = [f \in Futs |->
                            IF f \in new THEN out[f - nfut] ELSE fstate[f]]
            /\ fres' = [f \in Futs |->
                            IF f \in new /\ out[f - nfut] = "ok"
                            THEN Function(pts[f - nfut]) ELSE fres[f]]
            /\ viaPool' = IF SubmitsToPool THEN viaPool \cup new ELSE viaPool
            /\ allExact' = (allExact /\ k = n)
            /\ neverMore' = (neverMore /\ k <= n)
    /\ pc' = "wait"
    /\ UNCHANGED <<ntasks, shutdown_executor, done, lenDone, exc>>
    /\ UNCHANGED <<addCount, cancelCalled, shutdownCount, goalTrue, goalEvals,
                   lastWake, cancelReqs, cancelAt, outAtCancel, failedFut,
                   taskCreated>>

\* choose_points raises after the call was logged
FillRaises ==
    /\ pc = "fill" /\ rounds < MaxRounds
    /\ UNCHANGED cfg
    /\ LET n == Requested(lenDone, ntasks, Cardinality(xs)) IN
       /\ log' = Record(log, <<"choose_points", n>>)
       /\ calls' = Append(calls, <<"choose_points", n>>)
    /\ rounds' = rounds + 1
    /\ pc' = "drain"
    /\ exc' = "ChooseError"
    /\ UNCHANGED <<ntasks, shutdown_executor, xs, fx, done, lenDone>>
    /\ UNCHANGED futs
    /\ UNCHANGED <<addCount, cancelCalled, shutdownCount, goalTrue, goalEvals,
                   lastWake, allExact, neverMore, cancelReqs, cancelAt, outAtCancel,
                   failedFut, taskCreated>>

\* wait(futures, return_when=FIRST_COMPLETED) over an empty list:
\* concurrent.futures.wait returns two empty sets at once and the loop goes
\* round; asyncio.wait raises ValueError
WaitEmpty ==
    /\ pc = "wait" /\ xs = {}
    /\ UNCHANGED cfg
    /\ pc' = EmptyWait(mode).pc
    /\ IF EmptyWait(mode).exc = "none"
       THEN /\ done' = {}
            /\ lenDone' = 0
            /\ lastWake' = 0
            /\ exc' = exc
       ELSE /\ exc' = EmptyWait(mode).exc
            /\ UNCHANGED <<done, lenDone, lastWake>>
    /\ UNCHANGED <<ntasks, shutdown_executor, log, xs, fx>>
    /\ UNCHANGED futs
    /\ UNCHANGED <<calls, addCount, cancelCalled, shutdownCount, goalTrue,
                   goalEvals, rounds, allExact, neverMore, cancelReqs, cancelAt,
                   outAtCancel, failedFut, taskCreated>>

\* WAITING ends: at least one future of the map has resolved, and the wait
\* returns every future of the map that has
WakeUp ==
    /\ pc = "wait" /\ xs # {}
    /\ Resolved(xs) # {}
    /\ UNCHANGED cfg
    /\ done' = WaitResult(xs)
    /\ lenDone' = Cardinality(done')
    /\ lastWake' = Cardinality(Resolved(xs))
    /\ pc' = IF done' \cap xs = {} THEN "goal" ELSE "absorb"
    /\ UNCHANGED <<ntasks, shutdown_executor, log, xs, fx, exc>>
    /\ UNCHANGED futs
    /\ UNCHANGED <<calls, addCount, cancelCalled, shutdownCount, goalTrue,
                   goalEvals, rounds, allExact, neverMore, cancelReqs, cancelAt,
                   outAtCancel, failedFut, taskCreated>>

\* one pass of 'for fut in done' over a future that succeeded:
\* x = xs.pop(fut); y = fut.result(); log; self.learner.add_point(x, y)
Absorb ==
    /\ pc = "absorb"
    /\ UNCHANGED cfg
    /\ \E f \in done \cap xs :
         /\ fstate[f] = "ok"
         /\ xs' = Pop(xs, f)
         /\ log' = Record(log, <<"add_point", fx[f], fres[f]>>)
         /\ calls' = Append(calls, <<"add_point", fx[f], fres[f]>>)
         /\ addCount' = [addCount EXCEPT ![f] = @ + 1]
         /\ \E raises \in BOOLEAN :
              IF raises
              THEN /\ pc' = "drain"
                   /\ exc' = "AddPointError"
              ELSE /\ pc' = IF done \cap xs' = {} THEN "goal" ELSE "absorb"
                   /\ exc' = exc
    /\ UNCHANGED <<ntasks, shutdown_executor, fx, done, lenDone>>
    /\ UNCHANGED futs
    /\ UNCHANGED <<cancelCalled, shutdownCount, goalTrue, goalEvals, rounds,
                   lastWake, allExact, neverMore, cancelReqs, cancelAt, outAtCancel,
                   failedFut, taskCreated>>

\* one pass of 'for fut in done' over a future whose work raised:
\* x = xs.pop(fut); fut.result() raises and the exception leaves the loop
AbsorbFails ==
    /\ pc = "absorb"
    /\ UNCHANGED cfg
    /\ \E f \in done \cap xs :
         /\ fstate[f] = "err"
         /\ xs' = Pop(xs, f)
         /\ failedFut' = f
    /\ pc' = "drain"
    /\ exc' = "WorkerFailure"
    /\ UNCHANGED <<ntasks, shutdown_executor, log, fx, done, lenDone>>
    /\ UNCHANGED futs
    /\ UNCHANGED <<calls, addCount, cancelCalled, shutdownCount, goalTrue,
                   goalEvals, rounds, lastWake, allExact, neverMore, cancelReqs,
                   cancelAt, outAtCancel, taskCreated>>

\* ---- _run: the finally block -------------------------------------------

\* 'if self.shutdown_executor: self.executor.shutdown()'
ShutdownIf(flag, n) == IF flag THEN n + 1 ELSE n

\* DRAINING: remove_unfinished, cancel what is left in the map, and either
\* wait for it or, with nothing left, shut the pool down and leave
Drain ==
    /\ pc = "drain"
    /\ UNCHANGED cfg
    /\ calls' = Append(calls, <<"remove_unfinished">>)
    /\ cancelCalled' = cancelCalled \cup xs
    /\ fstate' = [f \in Futs |-> IF f \in xs THEN CancelFut(fstate[f])
                                            ELSE fstate[f]]
    /\ pc' = AfterDrain(xs = {})
    /\ shutdownCount' = IF xs = {}
                        THEN ShutdownIf(shutdown_executor, shutdownCount)
                        ELSE shutdownCount
    /\ UNCHANGED <<ntasks, shutdown_executor, log, xs, fx, done, lenDone, exc>>
    /\ UNCHANGED <<nfut, fres, viaPool>>
    /\ UNCHANGED <<addCount, goalTrue, goalEvals, rounds, lastWake, allExact, neverMore,
                   cancelReqs, cancelAt, outAtCancel, failedFut, taskCreated>>

\* wait(remaining) returns once every remaining future has resolved; then
\* the pool is shut down and the exception in flight, if any, is re-raised
DrainDone ==
    /\ pc = "drainwait"
    /\ AllResolved(xs)
    /\ UNCHANGED cfg
    /\ shutdownCount' = ShutdownIf(shutdown_executor, shutdownCount)
    /\ pc' = "done"
    /\ UNCHANGED <<ntasks, shutdown_executor, log, xs, fx, done, lenDone, exc>>
    /\ UNCHANGED futs
    /\ UNCHANGED <<calls, addCount, cancelCalled, goalTrue, goalEvals, rounds,
                   lastWake, allExact, neverMore, cancelReqs, cancelAt, outAtCancel,
                   failedFut, taskCreated>>


\* ---- the workers --------------------------------------------------------

\* the runner's own thread of control is stopped in a wait
Suspended == pc \in AwaitPoints

\* when a future can change state: a pool's workers run in parallel with the
\* blocking runner; the futures of the asyncio runner change state in
\* callbacks of the event loop, which run only while the task is suspended
WorkersRun ==
    IF mode = "blocking" THEN pc \notin {"new", "start", "done"} ELSE Suspended

\* a worker of the pool picks a queued unit of work up: from now on
\* concurrent.futures.Future.cancel() returns False
WorkerStart ==
    /\ mode = "blocking" /\ WorkersRun
    /\ \E f \in Futs :
         /\ fstate[f] = "pending"
         /\ fstate' = [fstate EXCEPT ![f] = "running"]
    /\ UNCHANGED <<cfg, loop, hist>>
    /\ UNCHANGED <<nfut, fres, viaPool>>

\* states in which the unit of work of a future can still end by itself
CanFinish(s) ==
    IF mode = "blocking" THEN s = "running" ELSE s \in {"pending", "cancelling"}

\* learner.function(x) returns y
WorkerReturns ==
    /\ WorkersRun
    /\ \E f \in Futs :
         /\ CanFinish(fstate[f])
         /\ fstate' = [fstate EXCEPT ![f] = "ok"]
         /\ fres' = [fres EXCEPT ![f] = Function(fx[f])]
    /\ UNCHANGED <<cfg, loop, hist>>
    /\ UNCHANGED <<nfut, viaPool>>

\* learner.function(x) raises
WorkerRaises ==
    /\ WorkersRun
    /\ \E f \in Futs :
         /\ CanFinish(fstate[f])
         /\ fstate' = [fstate EXCEPT ![f] = "err"]
    /\ UNCHANGED <<cfg, loop, hist>>
    /\ UNCHANGED <<nfut, fres, viaPool>>

\* a task running learner.function(x) on the event loop ends cancelled
TaskCancelled ==
    /\ WorkersRun
    /\ \E f \in Futs :
         /\ fstate[f] = "cancelling"
         /\ fstate' = [fstate EXCEPT ![f] = "cancelled"]
    /\ UNCHANGED <<cfg, loop, hist>>
    /\ UNCHANGED <<nfut, fres, viaPool>>

\* ---- external cancellation of runner.task -------------------------------

CanCancel == mode = "async" /\ taskCreated /\ cancelReqs < MaxCancel

NoteCancel ==
    /\ cancelReqs' = cancelReqs + 1
    /\ cancelAt' = IF cancelAt = "never" THEN pc ELSE cancelAt
    /\ outAtCancel' = IF cancelAt = "never" THEN xs ELSE outAtCancel

\* task.cancel() before the first step of _run: CancelledError is thrown
\* into the coroutine before its first statement, so none of it runs
CancelBeforeStart ==
    /\ CanCancel /\ pc = "start"
    /\ UNCHANGED cfg
    /\ NoteCancel
    /\ pc' = "done"
    /\ exc' = CancelExc(exc)
    /\ UNCHANGED <<ntasks, shutdown_executor, log, xs, fx, done, lenDone>>
    /\ UNCHANGED futs
    /\ UNCHANGED <<calls, addCount, cancelCalled, shutdownCount, goalTrue,
                   goalEvals, rounds, lastWake, allExact, neverMore, failedFut,
                   taskCreated>>

\* task.cancel() while suspended in 'await asyncio.wait(futures, ...)':
\* CancelledError is raised there, inside the try block
CancelInWait ==
    /\ CanCancel /\ pc = "wait" /\ xs # {}
    /\ UNCHANGED cfg
    /\ NoteCancel
    /\ pc' = "drain"
    /\ exc' = CancelExc(exc)
    /\ UNCHANGED <<ntasks, shutdown_executor, log, xs, fx, done, lenDone>>
    /\ UNCHANGED futs
    /\ UNCHANGED <<calls, addCount, cancelCalled, shutdownCount, goalTrue,
                   goalEvals, rounds, lastWake, allExact, neverMore, failedFut,
                   taskCreated>>

\* task.cancel() while suspended in 'await asyncio.wait(remaining)':
\* CancelledError is raised inside the finally block and leaves it
CancelInDrain ==
    /\ CanCancel /\ pc = "drainwait"
    /\ UNCHANGED cfg
    /\ NoteCancel
    /\ pc' = "done"
    /\ exc' = CancelExc(exc)
    /\ UNCHANGED <<ntasks, shutdown_executor, log, xs, fx, done, lenDone>>
    /\ UNCHANGED futs
    /\ UNCHANGED <<calls, addCount, cancelCalled, shutdownCount, goalTrue,
                   goalEvals, rounds, lastWake, allExact, neverMore, failedFut,
                   taskCreated>>

\* ---- specification ------------------------------------------------------

Next ==
    \/ ConstructBlocking
    \/ ConstructAsync
    \/ Begin
    \/ GoalTest
    \/ GoalRaises
    \/ Fill
    \/ FillRaises
    \/ WaitEmpty
    \/ WakeUp
    \/ Absorb
    \/ AbsorbFails
    \/ Drain
    \/ DrainDone
    \/ WorkerStart
    \/ WorkerReturns
    \/ WorkerRaises
    \/ TaskCancelled
    \/ CancelBeforeStart
    \/ CancelInWait
    \/ CancelInDrain

Spec == Init /\ [][Next]_vars

\* ---- types --------------------------------------------------------------

TypeOK ==
    /\ pc \in {"new", "start", "goal", "fill", "wait", "absorb", "drain",
               "drainwait", "done"}
    /\ xs \subseteq 1..nfut
    /\ nfut \in 0..MaxFut
    /\ \A f \in Futs : fstate[f] \in FutStates /\ (fstate[f] = "none" <=> f > nfut)


\* ---- observations -------------------------------------------------------

\* number of invocations of one learner method so far
CallCount(name) == Cardinality({i \in 1..Len(calls) : calls[i][1] = name})

\* the run is over: the constructor or _run returned or raised, or the task
\* is done
Over == pc = "done"

\* the constructor got as far as running (or scheduling) _run
Constructed == pc # "new" /\ ~(pc = "done" /\ exc \in
                   {"CoroutineInBlocking", "TypeError", "ExecutorUnused"})

\* the ways out of a run the teardown contract speaks of
RunExits == {"none", "WorkerFailure", "GoalError", "ChooseError",
             "AddPointError", "Cancelled"}

\* the pool was created by the runner itself
PoolInternal == executorArg = "none" /\ Constructed

\* _run is inside its try block or its finally block
InLoop == pc \in {"goal", "fill", "wait", "absorb", "drain", "drainwait"}

\* ---- C1 -----------------------------------------------------------------

\* C1: on every exit of a run -- goal met, a worker raising, the goal,
\* choose_points or add_point raising, or the task being cancelled at any
\* moment after construction, its first step included -- remove_unfinished
\* has been called exactly once, and never more than once before that
C1_DrainingNeverSkipped ==
    /\ CallCount("remove_unfinished") <= 1
    /\ (Over /\ Constructed /\ exc \in RunExits)
          => CallCount("remove_unfinished") = 1

\* ---- C2 -----------------------------------------------------------------

\* C2: once a unit of work has raised and the run is over, remove_unfinished
\* was called, cancel() was called on every future left in the map, a pool
\* the runner created was shut down, the exception that leaves the run is
\* the worker's, and add_point was never called for the failed future
C2_WorkerFailureTeardown ==
    /\ failedFut # 0 => addCount[failedFut] = 0
    /\ (failedFut # 0 /\ Over) =>
          /\ CallCount("remove_unfinished") = 1
          /\ xs \subseteq cancelCalled
          /\ PoolInternal => shutdownCount >= 1
          /\ exc = "WorkerFailure"

\* ---- C3 -----------------------------------------------------------------

\* the caller asked for zero tasks, or left the number to a pool without
\* workers
ZeroTasks ==
    \/ ntasksArg = 0
    \/ ntasksArg = None /\ GetNcores(executorArg, capacity) = 0

\* C3: with zero tasks the run never enters its loop: no learner call, no
\* submission, and without a cancellation it ends in the no-workers error;
\* and any run inside its loop has ntasks >= 1
C3_ZeroTasksFailFast ==
    /\ (ZeroTasks /\ Constructed) =>
          /\ ~InLoop
          /\ calls = <<>> /\ nfut = 0
          /\ (Over /\ cancelReqs = 0) => exc = "NoWorkers"
    /\ InLoop => ntasks >= 1


\* ---- C4 -----------------------------------------------------------------

\* this step is a FILLING step that is not the first of its run
LaterFill == pc = "fill" /\ pc' # "fill" /\ rounds >= 1

\* the argument of the choose_points call this step has made
AskedNow == calls'[Len(calls')][2]

\* C4: every FILLING step after the first asks choose_points for
\* ntasks minus the size of the outstanding-work map
C4_RefillIsNtasksMinusOutstanding ==
    [][LaterFill => AskedNow = ntasks - Cardinality(xs)]_vars

\* ---- C5 -----------------------------------------------------------------

\* futures whose unit of work returned
Succeeded == {f \in Futs : fstate[f] = "ok"}

\* C5: the first goal evaluation that returns true ends the loop -- from
\* then on the run is in its teardown and no choose_points call or submission
\* is made -- and with the synchronous pool the run that ends on the goal has
\* called add_point once per future that resolved successfully
C5_StopsAtGoal ==
    /\ [](goalTrue => pc \in {"drain", "drainwait", "done"})
    /\ [][goalTrue => (nfut' = nfut /\ CallCount("choose_points")' =
                                        CallCount("choose_points"))]_vars
    /\ []((executorArg = "sequential" /\ ntasks >= 1 /\ goalTrue /\ Over)
            => CallCount("add_point") = Cardinality(Succeeded))

\* a run on the synchronous pool with two tasks ended on the goal after
\* absorbing results
C5_Witness ==
    /\ executorArg = "sequential" /\ ntasks = 2
    /\ Over /\ goalTrue /\ exc = "none"
    /\ CallCount("add_point") >= 2
    /\ goalEvals >= 2

\* ---- C6 -----------------------------------------------------------------

\* C6: when the first goal evaluation is true, nothing is submitted,
\* choose_points is not called, nothing is logged, and by the end of the run
\* remove_unfinished was called exactly once and the pool was shut down if
\* shutdown_executor
C6_GoalTrueImmediately ==
    (goalTrue /\ goalEvals = 1) =>
        /\ nfut = 0
        /\ CallCount("choose_points") = 0
        /\ log = <<>>
        /\ CallCount("remove_unfinished") <= 1
        /\ Over => /\ CallCount("remove_unfinished") = 1
                   /\ shutdown_executor => shutdownCount >= 1
                   /\ exc = "none"

\* a logging run with a pool to shut down ended on a goal that was true at
\* once
C6_Witness ==
    /\ goalTrue /\ goalEvals = 1 /\ Over
    /\ logArg /\ shutdown_executor /\ shutdownCount = 1

\* ---- C7 -----------------------------------------------------------------

\* C7: a run first cancelled while suspended in the first-completed wait
\* never calls add_point for a future that was in the map at that moment,
\* and ends cancelled with remove_unfinished called exactly once
C7_CancelledMidWaiting ==
    (cancelAt = "wait") =>
        /\ \A f \in outAtCancel : addCount[f] = 0
        /\ CallCount("remove_unfinished") <= 1
        /\ Over => /\ exc = "Cancelled"
                   /\ CallCount("remove_unfinished") = 1

\* a run cancelled in the wait is over; one of the futures it held had
\* resolved before the cancellation and one was cancelled by the teardown
C7_Witness ==
    /\ cancelAt = "wait" /\ Over
    /\ \E f \in outAtCancel : fstate[f] = "cancelled"
    /\ \E f \in outAtCancel : fstate[f] = "ok"

\* ---- C8 -----------------------------------------------------------------

\* C8: when a run that was cancelled after its first step is over, every
\* future it submitted is finished or cancelled and the pool has been shut
\* down if shutdown_executor, whatever the cancellation requests were
C8_DrainCompletesAfterCancel ==
    (Over /\ cancelAt \in {"wait", "drainwait"}) =>
        /\ \A f \in 1..nfut : IsDone(fstate[f])
        /\ shutdown_executor => shutdownCount >= 1

\* ---- C9 -----------------------------------------------------------------

\* C9: shutdown_executor is the caller's flag or-ed with 'the runner created
\* the pool'; a pool the runner created has been shut down when the run is
\* over, whatever its outcome; a caller's pool is shut down only if the flag
\* is set
C9_ShutdownOwnership ==
    /\ (Constructed /\ pc # "new") =>
          shutdown_executor = (shutdownArg \/ executorArg = "none")
    /\ (Over /\ PoolInternal) => shutdownCount >= 1
    /\ (executorArg # "none" /\ ~shutdownArg) => shutdownCount = 0

\* ---- C10 ----------------------------------------------------------------

\* replay_log: the method calls it makes on the learner, in order
ReplayLog(lg) == [i \in 1..Len(lg) |-> lg[i]]

\* C10: the log of a finished run holds one entry per learner method call of
\* the run (choose_points, add_point and remove_unfinished), so that
\* replaying it makes the calls of the run on a fresh learner, with the same
\* arguments and in the same order
C10_ReplayDeterminism ==
    (logArg /\ Over /\ Constructed) => ReplayLog(log) = calls


\* ---- C11 ----------------------------------------------------------------

\* C11: a run that reaches the wait with an empty map -- choose_points gave
\* nothing, the goal is false and nothing is outstanding -- goes to its
\* teardown with an error in flight instead of waiting or going round the
\* loop, in both strategies; and a FILLING step that got any number of
\* points goes on to the wait with what is in the map
C11_NoProgressIsAnError ==
    /\ [][(pc = "wait" /\ xs = {}) => (pc' = "drain" /\ exc' # "none")]_vars
    /\ [][(pc = "fill" /\ pc' # "fill" /\ rounds' > rounds /\ exc' = exc)
             => pc' = "wait"]_vars

\* ---- C12 ----------------------------------------------------------------

\* C12: an asyncio runner given a coroutine function and a pool fails in its
\* constructor -- with the executor-is-unused error when the rest of the
\* constructor accepts the pool -- without creating a task, calling the
\* learner, submitting or shutting the pool down; given a coroutine function
\* and no pool it never submits to the pool; a blocking runner given a
\* coroutine function fails before anything else happens
C12_CoroutineFunctionAndPool ==
    /\ (mode = "async" /\ isCoro /\ executorArg # "none" /\ pc # "new") =>
          /\ Over /\ ~taskCreated
          /\ exc \in {"ExecutorUnused", "TypeError"}
          /\ ~BaseInitFails => exc = "ExecutorUnused"
          /\ calls = <<>> /\ nfut = 0 /\ shutdownCount = 0
    /\ (mode = "async" /\ isCoro /\ executorArg = "none") => viaPool = {}
    /\ (mode = "blocking" /\ isCoro /\ pc # "new") =>
          /\ Over /\ exc = "CoroutineInBlocking"
          /\ calls = <<>> /\ nfut = 0 /\ shutdownCount = 0
          /\ ntasks = 0 /\ ~shutdown_executor

\* an asyncio runner with a coroutine function and no pool has run two
\* evaluations as tasks of the event loop, and one has returned
C12_Witness ==
    /\ mode = "async" /\ isCoro /\ executorArg = "none"
    /\ nfut >= 2 /\ viaPool = {}
    /\ \E f \in Futs : fstate[f] = "ok"

\* ---- C13 ----------------------------------------------------------------

\* the blocking constructor returned or raised out of the loop of _run
BlockingReturned ==
    /\ mode = "blocking" /\ Over
    /\ exc \notin {"CoroutineInBlocking", "TypeError", "NoWorkers"}

\* C13: when the blocking runner hands control back, normally or with the
\* exception of a worker, remove_unfinished has been called, every future it
\* submitted is finished or cancelled, and the pool has been shut down if
\* shutdown_executor
C13_BlockingReturnsAfterDraining ==
    BlockingReturned =>
        /\ CallCount("remove_unfinished") = 1
        /\ \A f \in 1..nfut : IsDone(fstate[f])
        /\ shutdown_executor => shutdownCount = 1

\* a blocking run ended by a worker's exception; of the futures still in the
\* map one was cancelled and one, already running, was waited for
C13_Witness ==
    /\ BlockingReturned /\ exc = "WorkerFailure"
    /\ \E f \in xs : fstate[f] = "cancelled"
    /\ \E f \in xs : fstate[f] = "ok" /\ f \notin done


\* ---- C14 ----------------------------------------------------------------

\* C14: as long as no choose_points(n) call has returned more than n points
\* the map never holds more than ntasks futures, and as long as every call
\* has returned exactly n points the map holds exactly ntasks futures
\* whenever the loop is in the first-completed wait
C14_AtMostNtasksInFlight ==
    /\ (InLoop /\ neverMore) => Cardinality(xs) <= ntasks
    /\ (pc = "wait" /\ allExact) => Cardinality(xs) = ntasks

\* the loop waits a second time with two tasks in flight, after a learner
\* that gave exactly what was asked for replaced one resolved future
C14_Witness ==
    /\ pc = "wait" /\ allExact /\ rounds = 2
    /\ ntasks = 2 /\ Cardinality(xs) = 2 /\ nfut = 3

\* ---- C15 ----------------------------------------------------------------

\* the loop is between the end of the for loop and the next wait, or has
\* left the loop because the goal was true
Deciding == pc \in {"goal", "fill"} \/ (goalTrue /\ pc = "drain")

\* C15 as claimed: no key of the map is a resolved future when the loop
\* tests its goal, and none whose work returned is left in the map, its
\* result dropped, when the loop stops on the goal
C15_MapHoldsUnresolvedWork ==
    Deciding => Resolved(xs) = {}

\* C15 as amended: a future is removed from the map in the step that absorbs
\* its result, so no key of the map has been given to add_point; when the
\* loop tests its goal, none of the futures the last wait returned is in the
\* map; and in the asyncio strategy, where futures resolve only while the
\* task is suspended, no key of the map is resolved at that point
C15_MapHoldsUnabsorbedWork ==
    /\ \A f \in xs : addCount[f] = 0
    /\ \A f \in 1..nfut : f \notin xs => (addCount[f] = 1 \/ f = failedFut)
    /\ Deciding => done \cap xs = {}
    /\ (Deciding /\ mode = "async") => Resolved(xs) = {}

\* the asyncio loop is back at its goal test after a wait that returned two
\* futures, both absorbed, with a third still in the map
C15_Witness ==
    /\ mode = "async" /\ pc = "goal"
    /\ Cardinality(done) = 2 /\ \A f \in done : addCount[f] = 1
    /\ xs # {}


\* ---- C16 ----------------------------------------------------------------

\* the entries of a sequence of learner calls that name choose_points or
\* add_point
RECURSIVE ChooseAndAdd(_)
ChooseAndAdd(cs) ==
    IF cs = <<>> THEN <<>>
    ELSE LET rest == ChooseAndAdd(SubSeq(cs, 1, Len(cs) - 1))
             c == cs[Len(cs)] IN
         IF c[1] \in {"choose_points", "add_point"} THEN Append(rest, c)
                                                    ELSE rest

\* C16: with logging on, the log is at every moment the sequence of the
\* choose_points and add_point calls made so far, arguments included; a
\* FILLING step appends ('choose_points', k) with k the number it asks for,
\* and each absorbed result appends one ('add_point', x, y) with the input
\* and the result of the absorbed future; with logging off the log stays
\* empty
C16_LogIsTheCallSequence ==
    /\ [](logArg => log = ChooseAndAdd(calls))
    /\ [](~logArg => log = <<>>)
    /\ [][(logArg /\ rounds' > rounds) =>
             log' = Append(log, <<"choose_points", lenDone>>)]_vars
    /\ [][\A f \in Futs : (logArg /\ addCount'[f] > addCount[f]) =>
             log' = Append(log, <<"add_point", fx[f], Function(fx[f])>>)]_vars

\* a logging run has logged a refill for one future after two results
C16_Witness ==
    /\ logArg /\ Len(log) >= 4
    /\ log[1] = <<"choose_points", 2>>
    /\ log[2][1] = "add_point" /\ log[3][1] = "add_point"
    /\ log[4][1] = "choose_points"

\* ---- C17 ----------------------------------------------------------------

\* the run is in its finally block or over
Draining == pc \in {"drain", "drainwait", "done"}

\* C17: once the teardown has begun the run stays in it, submits nothing
\* and makes no choose_points or add_point call, whatever completes
\* meanwhile
C17_NothingAfterDrainingBegan ==
    [][Draining =>
          /\ Draining'
          /\ nfut' = nfut
          /\ addCount' = addCount
          /\ CallCount("choose_points")' = CallCount("choose_points")
          /\ CallCount("add_point")' = CallCount("add_point")
          /\ log' = log]_vars

\* an asyncio run that stopped on its goal is over; a task it cancelled in
\* the teardown returned a value all the same, which no add_point call took
C17_Witness ==
    /\ mode = "async" /\ isCoro /\ goalTrue /\ Over
    /\ \E f \in xs \cap cancelCalled : fstate[f] = "ok" /\ addCount[f] = 0


\* ---- C18 ----------------------------------------------------------------

\* this step delivers a task.cancel() to the run
CancelTakesEffect == cancelReqs' > cancelReqs

\* this step is a step of the event loop in which a future of the asyncio
\* runner changes state by itself
LoopCallback == mode = "async" /\ fstate' # fstate /\ pc' = pc

C19_AbsorbedAtMostOnce ==
    /\ [](\A f \in Futs :
            /\ addCount[f] <= 1
            /\ addCount[f] = 1 =>
                  /\ f \notin xs
                  /\ f \notin cancelCalled
                  /\ fstate[f] = "ok")
    /\ [][\A f \in Futs : addCount'[f] > addCount[f] =>
             /\ f \in xs /\ f \notin xs'
             /\ calls' = Append(calls, <<"add_point", fx[f], fres[f]>>)
             /\ fres[f] = Function(fx[f])]_vars
    /\ [](CallCount("add_point") =
            Cardinality({f \in Futs : addCount[f] = 1}))

\* a run is over: two futures were absorbed and a third was cancelled
C19_Witness ==
    /\ Over
    /\ Cardinality({f \in Futs : addCount[f] = 1}) = 2
    /\ \E f \in cancelCalled : fstate[f] = "cancelled"

\* ---- C20 ----------------------------------------------------------------

\* C20: the two strategies are one state machine: from a state of the loop,
\* the same learner, goal and completions take both to the same next state;
\* among the steps of the loop only the wait on an empty map is written
\* apart for each strategy, and it must come out the same
C20_SameStateMachine ==
    (pc = "wait" /\ xs = {} /\ cancelReqs = 0) =>
        EmptyWait("blocking") = EmptyWait("async")

====
